---- MODULE Spec2Model ----
(***************************************************************************)
(* Health Risk Predictor (streamlit_app.py).                               *)
(*                                                                         *)
(* The program is one Streamlit script.  Streamlit runs the whole script   *)
(* from top to bottom when the page is opened and again after every widget *)
(* interaction; what survives between two runs is the cache_resource entry *)
(* of load_artifacts and the values of the widgets.  One action of this    *)
(* model is one interaction followed by the complete script run it         *)
(* triggers.                                                               *)
(*                                                                         *)
(* Numbers: measurements are integers in the unit of their label;          *)
(* probabilities and thresholds are integers in thousandths (720 = 0.72),  *)
(* so the two display formats of the script (.1% and .4f) are exact; a     *)
(* step is stored doubled (step2 = 2 for step 1, 1 for step 0.5).          *)
(* An optional value is a sequence of length 0 or 1.                       *)
(***************************************************************************)
EXTENDS Integers, Sequences, FiniteSets, TLC

VARIABLES
    disk,          \* the two files: risk_model.pkl and model_meta.json
    reads,         \* how often each file's content has been read so far
    cache,         \* st.cache_resource entry of load_artifacts: <<>> or <<pair>>
    session,       \* values committed by the number_input widgets (id -> value)
    show_details,  \* state of the "Show probability details" checkbox
    exc,           \* exception that ended the last script run, or "none"
    fields,        \* number_input widgets rendered by the last run, in order
    user_input,    \* the dict user_input of the last run, in insertion order
    warnings,      \* the list warnings of the last run
    controls,      \* whether the last run rendered the button and the checkbox
    call,          \* <<X_one>> if the last run invoked predict_proba, else <<>>
    result,        \* <<[prob, pred, THRESHOLD]>> if the last run computed them, else <<>>
    out,           \* what the predict branch of the last run displayed
    first          \* history: input and result of the first completed prediction

vars == <<disk, reads, cache, session, show_details, exc, fields, user_input,
          warnings, controls, call, result, out, first>>

(***************************************************************************)
(* Bounds of the model.                                                    *)
(***************************************************************************)
\* A script run that has to read the files is taken only while no file has
\* been read this many times.
MaxReads == 2

Max(a, b) == IF a >= b THEN a ELSE b
Min(a, b) == IF a <= b THEN a ELSE b

(***************************************************************************)
(* The static tables.                                                      *)
(***************************************************************************)
LABELS ==
    ("age" :> "Age (years)") @@
    ("stab.glu" :> "Glucose (mg/dL)") @@
    ("chol" :> "Total Cholesterol (mg/dL)") @@
    ("hdl" :> "HDL Cholesterol (mg/dL)") @@
    ("bp.1s" :> "Systolic BP (mmHg)") @@
    ("bp.1d" :> "Diastolic BP (mmHg)") @@
    ("weight" :> "Weight (lb)") @@
    ("waist" :> "Waist (inches)") @@
    ("hip" :> "Hip (inches)")

RANGES ==
    ("age" :> [vmin |-> 18, vmax |-> 100, step2 |-> 2]) @@
    ("stab.glu" :> [vmin |-> 50, vmax |-> 450, step2 |-> 2]) @@
    ("chol" :> [vmin |-> 75, vmax |-> 450, step2 |-> 2]) @@
    ("hdl" :> [vmin |-> 10, vmax |-> 130, step2 |-> 2]) @@
    ("bp.1s" :> [vmin |-> 80, vmax |-> 260, step2 |-> 2]) @@
    ("bp.1d" :> [vmin |-> 40, vmax |-> 160, step2 |-> 2]) @@
    ("weight" :> [vmin |-> 70, vmax |-> 400, step2 |-> 2]) @@
    ("waist" :> [vmin |-> 20, vmax |-> 70, step2 |-> 1]) @@
    ("hip" :> [vmin |-> 25, vmax |-> 80, step2 |-> 1])

DEFAULTS ==
    ("age" :> 45) @@
    ("stab.glu" :> 95) @@
    ("chol" :> 200) @@
    ("hdl" :> 50) @@
    ("bp.1s" :> 130) @@
    ("bp.1d" :> 80) @@
    ("weight" :> 175) @@
    ("waist" :> 38) @@
    ("hip" :> 43)

(***************************************************************************)
(* The environment: the files the script reads.  The classifier is an      *)
(* externally trained object; the model stands a linear scorer in for it   *)
(* (thousandths, clipped to [0, 1000]) that, like a fitted scikit-learn    *)
(* estimator, refuses a frame whose columns are not the ones it was        *)
(* fitted on.                                                              *)
(***************************************************************************)
ClassifierA ==
    [feature_names_in |-> <<"age", "stab.glu">>, coef |-> <<1, 1>>, intercept |-> 5]
ClassifierB ==
    [feature_names_in |-> <<"waist", "bmi">>, coef |-> <<10, 1>>, intercept |-> 0]

MetaA == [features |-> <<"age", "stab.glu">>, threshold |-> 500]
MetaA2 == [features |-> <<"age", "stab.glu">>, threshold |-> 145]
MetaB == [features |-> <<"waist", "bmi">>, threshold |-> 380]
MetaNoFeatures == [threshold |-> 500]
MetaNoThreshold == [features |-> <<"age", "stab.glu">>]

\* risk_model.pkl: absent, present but not deserializable, or a pickled classifier.
ModelFiles ==
    { [state |-> "missing", obj |-> <<>>],
      [state |-> "corrupt", obj |-> <<>>],
      [state |-> "ok", obj |-> <<ClassifierA>>],
      [state |-> "ok", obj |-> <<ClassifierB>>] }

\* model_meta.json: absent, not JSON, or a JSON object.
MetaFiles ==
    { [state |-> "missing", json |-> <<>>],
      [state |-> "malformed", json |-> <<>>],
      [state |-> "ok", json |-> <<MetaNoFeatures>>],
      [state |-> "ok", json |-> <<MetaNoThreshold>>],
      [state |-> "ok", json |-> <<MetaA>>],
      [state |-> "ok", json |-> <<MetaA2>>],
      [state |-> "ok", json |-> <<MetaB>>] }

\* Every feature identifier a metadata file of the model names.
Ids == {"age", "stab.glu", "waist", "bmi"}

(***************************************************************************)
(* load_artifacts under st.cache_resource.                                 *)
(***************************************************************************)
\* The body of load_artifacts: joblib.load, then open and json.load.  A file
\* that exists is read (rm, rj: 1) even when its content is then refused.
\* The exceptions carry the names of the error taxonomy: FileNotFoundError is
\* ArtifactMissing or MetadataMissing, an unpickling error ArtifactCorrupt, a
\* JSONDecodeError (and, in Startup, a KeyError) MetadataMalformed.
load_body(d) ==
    IF d.model.state = "missing"
    THEN [raised |-> "ArtifactMissing", value |-> <<>>, rm |-> 0, rj |-> 0]
    ELSE IF d.model.state = "corrupt"
    THEN [raised |-> "ArtifactCorrupt", value |-> <<>>, rm |-> 1, rj |-> 0]
    ELSE IF d.meta.state = "missing"
    THEN [raised |-> "MetadataMissing", value |-> <<>>, rm |-> 1, rj |-> 0]
    ELSE IF d.meta.state = "malformed"
    THEN [raised |-> "MetadataMalformed", value |-> <<>>, rm |-> 1, rj |-> 1]
    ELSE [raised |-> "none",
          value |-> <<[model |-> d.model.obj[1], meta |-> d.meta.json[1]]>>,
          rm |-> 1, rj |-> 1]

\* load_artifacts whose stored pair is never used: every call runs the body.
load_artifacts_reload(c, d) ==
    LET r == load_body(d) IN
    [raised |-> r.raised, value |-> r.value, rm |-> r.rm, rj |-> r.rj,
     cache |-> IF r.raised = "none" THEN r.value ELSE c]

\* The memoized call: a stored pair is returned without running the body; a
\* returned pair is stored; an exception stores nothing.
load_artifacts(c, d) ==
    IF c # <<>>
    THEN [raised |-> "none", value |-> c, rm |-> 0, rj |-> 0, cache |-> c]
    ELSE LET r == load_body(d) IN
         [raised |-> r.raised, value |-> r.value, rm |-> r.rm, rj |-> r.rj,
          cache |-> r.value]

\* Startup with meta.get("threshold", 0.5) in place of meta["threshold"].
StartupDefaults(c, d) ==
    LET la == load_artifacts(c, d) IN
    IF la.raised # "none"
    THEN [raised |-> la.raised, la |-> la, FEATURES |-> <<>>, THRESHOLD |-> 0]
    ELSE LET meta == la.value[1].meta IN
         IF "features" \notin DOMAIN meta
         THEN [raised |-> "MetadataMalformed", la |-> la,
               FEATURES |-> <<>>, THRESHOLD |-> 0]
         ELSE [raised |-> "none", la |-> la, FEATURES |-> meta.features,
               THRESHOLD |-> IF "threshold" \in DOMAIN meta
                             THEN meta.threshold ELSE 500]

\* Lines 15-17: model, meta = load_artifacts(); FEATURES = meta["features"];
\* THRESHOLD = float(meta["threshold"]).  A missing key raises KeyError.
Startup(c, d) ==
    LET la == load_artifacts(c, d) IN
    IF la.raised # "none"
    THEN [raised |-> la.raised, la |-> la, FEATURES |-> <<>>, THRESHOLD |-> 0]
    ELSE LET meta == la.value[1].meta IN
         IF "features" \notin DOMAIN meta
         THEN [raised |-> "MetadataMalformed", la |-> la,
               FEATURES |-> <<>>, THRESHOLD |-> 0]
         ELSE IF "threshold" \notin DOMAIN meta
         THEN [raised |-> "MetadataMalformed", la |-> la,
               FEATURES |-> <<>>, THRESHOLD |-> 0]
         ELSE [raised |-> "none", la |-> la,
               FEATURES |-> meta.features, THRESHOLD |-> meta.threshold]

(***************************************************************************)
(* The input form (lines 76-96).                                           *)
(***************************************************************************)
\* LABELS.get(f, f)
LabelOf(f) == IF f \in DOMAIN LABELS THEN LABELS[f] ELSE f

\* RangeOf with RANGES.get(f, (0, 100, 1.0)).
RangeOfDefaulted(f) ==
    IF f \in DOMAIN RANGES
    THEN [bounded |-> TRUE, vmin |-> RANGES[f].vmin, vmax |-> RANGES[f].vmax,
          step2 |-> RANGES[f].step2]
    ELSE [bounded |-> TRUE, vmin |-> 0, vmax |-> 100, step2 |-> 2]

\* RANGES.get(f, (None, None, 1.0)); bounded is "vmin is not None".
RangeOf(f) ==
    IF f \in DOMAIN RANGES
    THEN [bounded |-> TRUE, vmin |-> RANGES[f].vmin, vmax |-> RANGES[f].vmax,
          step2 |-> RANGES[f].step2]
    ELSE [bounded |-> FALSE, vmin |-> 0, vmax |-> 0, step2 |-> 2]

\* float(DEFAULTS.get(f, 0.0))
DefaultOf(f) == IF f \in DOMAIN DEFAULTS THEN DEFAULTS[f] ELSE 0

\* InitialValue with value=float(DEFAULTS.get(label, 0.0)).
InitialValueByLabel(f) ==
    IF LabelOf(f) \in DOMAIN DEFAULTS THEN DEFAULTS[LabelOf(f)] ELSE 0

\* The value= argument of number_input: the default, clamped into the range
\* when there is one.
InitialValue(f) ==
    LET r == RangeOf(f) IN
    IF r.bounded THEN Min(Max(DefaultOf(f), r.vmin), r.vmax) ELSE DefaultOf(f)

\* The widget rendered for the feature at position i (from 0) of FEATURES.
resolve_field(i, f) ==
    LET r == RangeOf(f) IN
    [id |-> f, label |-> LabelOf(f), bounded |-> r.bounded,
     min_value |-> r.vmin, max_value |-> r.vmax, value |-> InitialValue(f),
     step2 |-> r.step2, col |-> IF i % 2 = 0 THEN "left" ELSE "right"]

\* What st.number_input returns: the value the widget holds, which is its
\* value= argument until the operator commits another one.
number_input(fs, sess) ==
    IF fs.id \in DOMAIN sess THEN sess[fs.id] ELSE fs.value

\* Commit of a widget created without min_value and max_value.
CommitAny(fs, old, v) == {v}

\* What the widget holds after the operator types v: a bounded widget does
\* not commit a number outside [min_value, max_value]; it keeps the value it
\* held or takes the nearest bound.
Commit(fs, old, v) ==
    IF fs.bounded /\ (v < fs.min_value \/ v > fs.max_value)
    THEN {old, Min(Max(v, fs.min_value), fs.max_value)}
    ELSE {v}

\* A Python dict as the sequence of its <<key, value>> items in insertion
\* order: d[k] = v, k in d, d[k].
DictSet(d, k, v) ==
    IF \E i \in 1..Len(d) : d[i][1] = k
    THEN [i \in 1..Len(d) |-> IF d[i][1] = k THEN <<k, v>> ELSE d[i]]
    ELSE Append(d, <<k, v>>)
DictGet(d, k) == d[CHOOSE i \in 1..Len(d) : d[i][1] = k][2]

Rendered(FEATURES) ==
    [i \in 1..Len(FEATURES) |-> resolve_field(i - 1, FEATURES[i])]

\* The loop of lines 80-96 from position i on, d being user_input so far.
RECURSIVE FormLoop(_, _, _, _)
FormLoop(FEATURES, sess, i, d) ==
    IF i > Len(FEATURES) THEN d
    ELSE FormLoop(FEATURES, sess, i + 1,
                  DictSet(d, FEATURES[i],
                          number_input(resolve_field(i - 1, FEATURES[i]), sess)))

(***************************************************************************)
(* The input check (lines 98-106).                                         *)
(***************************************************************************)
\* IsExtreme with < and > in place of <= and >=.
IsExtremeStrict(f, val) ==
    f \in DOMAIN RANGES /\ (val < RANGES[f].vmin \/ val > RANGES[f].vmax)

\* Line 102 under the test of line 100.
IsExtreme(f, val) ==
    f \in DOMAIN RANGES /\ (val <= RANGES[f].vmin \/ val >= RANGES[f].vmax)

RECURSIVE WarningsLoop(_, _, _)
WarningsLoop(ui, i, w) ==
    IF i > Len(ui) THEN w
    ELSE WarningsLoop(ui, i + 1,
                      IF IsExtreme(ui[i][1], ui[i][2])
                      THEN Append(w, [label |-> LabelOf(ui[i][1]), val |-> ui[i][2]])
                      ELSE w)

(***************************************************************************)
(* The predict branch (lines 116-131).                                     *)
(***************************************************************************)
\* XOne with the columns taken in the reverse of FEATURES.
XOneReversed(ui, FEATURES) ==
    [i \in 1..Len(FEATURES) |->
        <<FEATURES[Len(FEATURES) + 1 - i], DictGet(ui, FEATURES[Len(FEATURES) + 1 - i])>>]

\* pd.DataFrame([user_input], columns=FEATURES): one row, the columns named
\* and ordered by FEATURES, each holding the dict's value for its name.
XOne(ui, FEATURES) ==
    [i \in 1..Len(FEATURES) |-> <<FEATURES[i], DictGet(ui, FEATURES[i])>>]

RECURSIVE Score(_, _, _)
Score(m, X, i) ==
    IF i > Len(X) THEN m.intercept ELSE m.coef[i] * X[i][2] + Score(m, X, i + 1)

\* model.predict_proba(X_one)[0, 1]
predict_proba(m, X) ==
    IF [i \in 1..Len(X) |-> X[i][1]] # m.feature_names_in
    THEN [raised |-> "ValueError", p |-> 0]
    ELSE [raised |-> "none", p |-> Min(Max(Score(m, X, 1), 0), 1000)]

\* Pred with > in place of >=.
PredStrict(prob, THRESHOLD) == IF prob > THRESHOLD THEN 1 ELSE 0

\* int(prob >= THRESHOLD)

Pred(prob, THRESHOLD) == IF prob >= THRESHOLD THEN 1 ELSE 0

HighRisk ==
    << [elem |-> "error", text |-> "High risk predicted  (P = {prob:.1%})"],
       [elem |-> "write",
        text |-> "Suggested action: consider follow-up screening and lifestyle interventions."] >>
LowerRisk ==
    << [elem |-> "success", text |-> "Lower risk predicted  (P = {prob:.1%})"],
       [elem |-> "write",
        text |-> "Suggested action: continue healthy habits and regular monitoring."] >>
Details ==
    << [elem |-> "write", text |-> "**Probability (risk=1):** {prob:.4f}"],
       [elem |-> "write", text |-> "**Threshold used:** {THRESHOLD}"] >>

\* Lines 122-131: what is displayed for a probability.
Display(prob, pred, show) ==
    (IF pred = 1 THEN HighRisk ELSE LowerRisk) \o (IF show THEN Details ELSE <<>>)

\* PredictBranch with the call wrapped in try/except and prob = 0.0 on error.
PredictBranchSwallow(m, FEATURES, THRESHOLD, ui, show) ==
    LET X_one == XOne(ui, FEATURES)
        r == predict_proba(m, X_one)
        prob == IF r.raised # "none" THEN 0 ELSE r.p
        pred == Pred(prob, THRESHOLD)
    IN  [raised |-> r.raised, call |-> <<X_one>>,
         result |-> IF r.raised # "none" THEN <<>>
                    ELSE <<[prob |-> prob, pred |-> pred, THRESHOLD |-> THRESHOLD]>>,
         out |-> Display(prob, pred, show)]

PredictBranch(m, FEATURES, THRESHOLD, ui, show) ==
    LET X_one == XOne(ui, FEATURES)
        r == predict_proba(m, X_one)
    IN  IF r.raised # "none"
        THEN [raised |-> r.raised, call |-> <<X_one>>, result |-> <<>>, out |-> <<>>]
        ELSE LET pred == Pred(r.p, THRESHOLD) IN
             [raised |-> "none", call |-> <<X_one>>,
              result |-> <<[prob |-> r.p, pred |-> pred, THRESHOLD |-> THRESHOLD]>>,
              out |-> Display(r.p, pred, show)]

(***************************************************************************)
(* One run of the script.                                                  *)
(***************************************************************************)
NoPredict == [raised |-> "none", call |-> <<>>, result |-> <<>>, out |-> <<>>]

\* The script from line 15 to line 131 with the widget values sess, the
\* checkbox at show, and predict_btn = click.  An exception ends the run where
\* it is raised: what was rendered before it stays on the page.
Run(sess, show, click) ==
    /\ cache = <<>> => (reads.model < MaxReads /\ reads.meta < MaxReads)
    /\ session' = sess
    /\ show_details' = show
    /\ UNCHANGED disk
    /\ \E st \in {Startup(cache, disk)} :
        /\ cache' = st.la.cache
        /\ reads' = [model |-> reads.model + st.la.rm,
                     meta |-> reads.meta + st.la.rj]
        /\ IF st.raised # "none"
           THEN /\ exc' = st.raised
                /\ fields' = <<>>
                /\ user_input' = <<>>
                /\ warnings' = <<>>
                /\ controls' = FALSE
                /\ call' = <<>>
                /\ result' = <<>>
                /\ out' = <<>>
                /\ first' = first
           ELSE \E ui \in {FormLoop(st.FEATURES, sess, 1, <<>>)} :
                \E pb \in {IF click
                           THEN PredictBranch(st.la.value[1].model, st.FEATURES,
                                              st.THRESHOLD, ui, show)
                           ELSE NoPredict} :
                /\ fields' = Rendered(st.FEATURES)
                /\ user_input' = ui
                /\ warnings' = WarningsLoop(ui, 1, <<>>)
                /\ controls' = TRUE
                /\ exc' = pb.raised
                /\ call' = pb.call
                /\ result' = pb.result
                /\ out' = pb.out
                /\ first' = IF first = <<>> /\ pb.result # <<>>
                            THEN <<[X |-> pb.call[1], prob |-> pb.result[1].prob,
                                    pred |-> pb.result[1].pred, details |-> show]>>
                            ELSE first

(***************************************************************************)
(* The interactions.                                                       *)
(***************************************************************************)
\* The numbers the operator types into a widget.
Typed(fs) ==
    IF fs.bounded
    THEN {fs.min_value - 1, fs.min_value, fs.min_value + 1, fs.max_value,
          fs.max_value + 1}
    ELSE {-1, 7}

\* The page is opened or rerun without any widget change.
Rerun == Run(session, show_details, FALSE)

\* The operator types v into the widget of feature f.
SetValue(f, v) ==
    \E i \in 1..Len(fields) :
        /\ fields[i].id = f
        /\ \E nv \in Commit(fields[i], number_input(fields[i], session), v) :
              Run(IF nv = number_input(fields[i], session)
                  THEN session
                  ELSE [g \in DOMAIN session \cup {f} |->
                            IF g = f THEN nv ELSE session[g]],
                  show_details, FALSE)

\* The operator flips "Show probability details".
ToggleDetails == controls /\ Run(session, ~show_details, FALSE)

\* The operator presses "Predict risk".
Predict == controls /\ Run(session, show_details, TRUE)

\* A new version of a file is installed while the process holds a loaded
\* pair: a pickled classifier, or a metadata object with both required keys.
ReplaceModel(m) ==
    /\ cache # <<>>
    /\ m.state = "ok"
    /\ m # disk.model
    /\ disk' = [disk EXCEPT !.model = m]
    /\ UNCHANGED <<reads, cache, session, show_details, exc, fields, user_input,
                   warnings, controls, call, result, out, first>>

ReplaceMeta(j) ==
    /\ cache # <<>>
    /\ j.state = "ok"
    /\ {"features", "threshold"} \subseteq DOMAIN j.json[1]
    /\ j # disk.meta
    /\ disk' = [disk EXCEPT !.meta = j]
    /\ UNCHANGED <<reads, cache, session, show_details, exc, fields, user_input,
                   warnings, controls, call, result, out, first>>

Init ==
    /\ disk \in [model : ModelFiles, meta : MetaFiles]
    /\ reads = [model |-> 0, meta |-> 0]
    /\ cache = <<>>
    /\ session = << >>
    /\ show_details = TRUE
    /\ exc = "none"
    /\ fields = <<>>
    /\ user_input = <<>>
    /\ warnings = <<>>
    /\ controls = FALSE
    /\ call = <<>>
    /\ result = <<>>
    /\ out = <<>>
    /\ first = <<>>

Next ==
    \/ Rerun
    \/ \E f \in Ids : \E v \in Typed(resolve_field(0, f)) : SetValue(f, v)
    \/ ToggleDetails
    \/ Predict
    \/ \E m \in ModelFiles : ReplaceModel(m)
    \/ \E j \in MetaFiles : ReplaceMeta(j)

Spec == Init /\ [][Next]_vars

(***************************************************************************)
(* Properties.                                                             *)
(***************************************************************************)
StartupErrors ==
    {"ArtifactMissing", "ArtifactCorrupt", "MetadataMissing", "MetadataMalformed"}

\* The value the widget of the i-th rendered field holds.
Held(i) ==
    IF fields[i].id \in DOMAIN session THEN session[fields[i].id] ELSE fields[i].value

\* C1: whenever the classifier is invoked, the frame it receives has exactly
\* the columns of the cached metadata's features, one per identifier, in the
\* same order, each holding the input vector's value for that identifier.
C1_FeatureOrder ==
    call # <<>> =>
        /\ cache # <<>>
        /\ Len(call[1]) = Len(cache[1].meta.features)
        /\ \A i \in 1..Len(call[1]) :
              /\ call[1][i][1] = cache[1].meta.features[i]
              /\ \E k \in 1..Len(user_input) : user_input[k] = call[1][i]
        /\ \A i, k \in 1..Len(call[1]) : call[1][i][1] = call[1][k][1] => i = k

\* The classifier was invoked after the operator had set only the second field.
C1_Witness ==
    /\ call # <<>>
    /\ Len(call[1]) = 2
    /\ DOMAIN session = {call[1][2][1]}

\* C2: a completed prediction has label 1 exactly when its probability is at
\* least the threshold of the cached metadata (equality included); label 1
\* displays the high-risk message and action, label 0 the lower-risk message
\* and action, and never both.
C2_ThresholdRule ==
    result # <<>> =>
        LET r == result[1] IN
        /\ r.pred \in {0, 1}
        /\ r.pred = 1 <=> r.prob >= cache[1].meta.threshold
        /\ Len(out) >= 2
        /\ r.pred = 1 => SubSeq(out, 1, 2) = HighRisk
        /\ r.pred = 0 => SubSeq(out, 1, 2) = LowerRisk
        /\ Cardinality({i \in 1..Len(out) : out[i].elem \in {"error", "success"}}) = 1
        /\ \A i \in 1..Len(out) :
              /\ out[i] \in {HighRisk[1], HighRisk[2]} => r.pred = 1
              /\ out[i] \in {LowerRisk[1], LowerRisk[2]} => r.pred = 0

\* A prediction whose probability equals the threshold.
C2_Witness ==
    /\ result # <<>>
    /\ result[1].prob = cache[1].meta.threshold
    /\ result[1].pred = 1

\* C3: every rendered field of a feature with a defined range starts from a
\* value within [min, max] of that range.
C3_DefaultInRange ==
    /\ controls => Len(fields) = Len(cache[1].meta.features)
    /\ \A i \in 1..Len(fields) :
          fields[i].id \in DOMAIN RANGES =>
              /\ RANGES[fields[i].id].vmin <= fields[i].value
              /\ fields[i].value <= RANGES[fields[i].id].vmax

\* A form with a ranged field has been rendered.
C3_Witness ==
    \E i \in 1..Len(fields) : fields[i].id \in DOMAIN RANGES /\ fields[i].bounded

\* C4: a field is in the warning list exactly when it has a range and its
\* value is <= min or >= max; every warning is for such a field.
C4_ExtremeWarning ==
    /\ \A i \in 1..Len(user_input) :
          LET f == user_input[i][1]
              val == user_input[i][2]
              label == IF f \in DOMAIN LABELS THEN LABELS[f] ELSE f
          IN  (\E k \in 1..Len(warnings) : warnings[k] = [label |-> label, val |-> val])
              <=> (f \in DOMAIN RANGES
                   /\ (val <= RANGES[f].vmin \/ val >= RANGES[f].vmax))
    /\ \A k \in 1..Len(warnings) :
          \E i \in 1..Len(user_input) :
              /\ warnings[k].val = user_input[i][2]
              /\ user_input[i][1] \in DOMAIN RANGES
              /\ warnings[k].label = LABELS[user_input[i][1]]
    /\ (\E i \in 1..Len(user_input) : user_input[i] = <<"stab.glu", 51>>)
          => ~ \E k \in 1..Len(warnings) : warnings[k].label = "Glucose (mg/dL)"

\* Glucose (range 50..450) holds 50 and is flagged.
C4_Witness ==
    /\ \E i \in 1..Len(user_input) : user_input[i] = <<"stab.glu", 50>>
    /\ \E k \in 1..Len(warnings) :
          warnings[k] = [label |-> "Glucose (mg/dL)", val |-> 50]

\* C5 as claimed: whatever number the operator types into a field, also one
\* outside the field's [min, max], is the value the input vector then holds
\* for that field.
C5_AsClaimed ==
    [][\A f \in Ids : \A v \in Typed(resolve_field(0, f)) :
          SetValue(f, v) =>
              \E k \in 1..Len(user_input') : user_input'[k] = <<f, v>>]_vars

\* C5: the classifier receives for every feature exactly the value its widget
\* holds; a number the widget accepts (any number without a range, a number
\* within [min, max] with one, the bounds included) is held exactly as typed;
\* a widget with a range never holds a number outside [min, max]; and
\* a page with warnings still has its predict button, whose press invokes the
\* classifier.
C5_AcceptedValuesUnaltered ==
    /\ [](call # <<>> =>
            /\ Len(call[1]) = Len(fields)
            /\ \A i \in 1..Len(call[1]) : call[1][i] = <<fields[i].id, Held(i)>>)
    /\ [](\A f \in DOMAIN session :
            f \in DOMAIN RANGES =>
                RANGES[f].vmin <= session[f] /\ session[f] <= RANGES[f].vmax)
    /\ [](warnings # <<>> => controls /\ cache # <<>>)
    /\ [][Predict => call' # <<>>]_vars
    /\ [][\A f \in Ids : \A v \in Typed(resolve_field(0, f)) :
            ((f \in DOMAIN RANGES => RANGES[f].vmin <= v /\ v <= RANGES[f].vmax)
             /\ SetValue(f, v))
            => \E k \in 1..Len(user_input') : user_input'[k] = <<f, v>>]_vars

\* The classifier received a value at a bound of its range, flagged as extreme.
C5_Witness ==
    /\ call # <<>>
    /\ warnings # <<>>
    /\ \E i \in 1..Len(call[1]) :
          /\ call[1][i][1] \in DOMAIN session
          /\ call[1][i][1] \in DOMAIN RANGES
          /\ call[1][i][2] = RANGES[call[1][i][1]].vmax

\* C6 as claimed: each file is read at most once in the life of the process.
C6_AsClaimed == reads.model <= 1 /\ reads.meta <= 1

\* C6: the load that fills the cache reads each file once and stores the pair
\* it read; from then on the cached pair never changes and no file is read
\* again, whatever is rendered, predicted or installed on disk; every run that
\* gets past startup has the cache filled.
C6_LoadOnceAfterSuccess ==
    /\ [](controls => cache # <<>>)
    /\ [][cache # <<>> => cache' = cache /\ reads' = reads]_vars
    /\ [][cache = <<>> /\ cache' # <<>> =>
            /\ reads'.model = reads.model + 1
            /\ reads'.meta = reads.meta + 1
            /\ disk.model.state = "ok" /\ disk.meta.state = "ok"
            /\ cache'[1] = [model |-> disk.model.obj[1], meta |-> disk.meta.json[1]]]_vars

\* A form rendered from a cached pair that is no longer the pair on disk.
C6_Witness ==
    /\ cache # <<>>
    /\ controls
    /\ disk.model.obj # <<cache[1].model>>
    /\ disk.meta.json # <<cache[1].meta>>

\* The error the files d (or, once loaded, the cached pair c) must produce at
\* startup, "none" if they are usable.
ExpectedStartupError(c, d) ==
    IF c # <<>>
    THEN IF {"features", "threshold"} \subseteq DOMAIN c[1].meta
         THEN "none" ELSE "MetadataMalformed"
    ELSE IF d.model.state = "missing" THEN "ArtifactMissing"
    ELSE IF d.model.state = "corrupt" THEN "ArtifactCorrupt"
    ELSE IF d.meta.state = "missing" THEN "MetadataMissing"
    ELSE IF d.meta.state = "malformed" THEN "MetadataMalformed"
    ELSE IF {"features", "threshold"} \subseteq DOMAIN d.meta.json[1]
         THEN "none" ELSE "MetadataMalformed"

C8_FailedPredictIsScoped ==
    /\ [](exc = "ValueError" =>
            /\ call # <<>> /\ result = <<>> /\ out = <<>>
            /\ controls /\ fields # <<>> /\ cache # <<>>)
    /\ [][exc' = "ValueError" =>
            /\ session' = session /\ show_details' = show_details
            /\ cache' = cache]_vars

\* The classifier refused the frame after the operator had entered a value.
C8_Witness ==
    /\ exc = "ValueError"
    /\ call # <<>>
    /\ session # << >>

C10_TableFallbacks ==
    \A i \in 1..Len(fields) :
        LET f == fields[i].id
            fs == fields[i]
        IN  /\ f \notin DOMAIN LABELS => fs.label = f
            /\ f \notin DOMAIN RANGES => ~fs.bounded /\ fs.step2 = 2
            /\ f \notin DOMAIN DEFAULTS => fs.value = 0
            /\ (f \notin DOMAIN RANGES /\ f \in DOMAIN session) =>
                  user_input[i] = <<f, session[f]>>
            /\ f \notin DOMAIN RANGES =>
                  ~ \E k \in 1..Len(warnings) : warnings[k].label = fs.label
            /\ f \in DOMAIN LABELS => fs.label = LABELS[f]
            /\ f \in DOMAIN RANGES =>
                  /\ fs.bounded
                  /\ fs.min_value = RANGES[f].vmin
                  /\ fs.max_value = RANGES[f].vmax
                  /\ fs.step2 = RANGES[f].step2
            /\ (f \in DOMAIN DEFAULTS /\ f \in DOMAIN RANGES) =>
                  fs.value = Min(Max(DEFAULTS[f], RANGES[f].vmin), RANGES[f].vmax)

\* The unknown feature bmi is rendered beside a table feature and holds -1.
C10_Witness ==
    /\ \E i \in 1..Len(fields) : fields[i].id = "bmi" /\ user_input[i] = <<"bmi", -1>>
    /\ \E i \in 1..Len(fields) : fields[i].id \in DOMAIN RANGES
    /\ warnings = <<>>

====
